---------------------------- MODULE Spec2Model ----------------------------
(***************************************************************************)
(* collect_hwid.py: derivation of a hardware identifier (HWID) and of the   *)
(* license request written for it.                                          *)
(*                                                                          *)
(* The machine the script runs on (the files and commands it reads) is the  *)
(* variable env; one run of main() is the sequence of actions ParseArgs,    *)
(* ReadBoardName, ParseCpuinfo, CollectGpuUuids, CheckTegra, ReadEmmcCid,   *)
(* SortParts, ComputeHwid, BuildRequest, Emit.  Strings are TLA+ strings    *)
(* over printable ASCII (without the backquote), tab, newline and form      *)
(* feed; a file opened in text mode never shows a carriage return to the    *)
(* program (universal newlines), so there is none in the alphabet.          *)
(***************************************************************************)
EXTENDS Integers, Sequences, FiniteSets, TLC

(***************************************************************************)
(* Bounds of the model.                                                     *)
(***************************************************************************)
\* device directories listed under /proc/driver/nvidia/gpus
MaxGpus == 2
\* feature names given after --features
MaxFeatures == 3
\* seconds the clock may show after BaseTime
MaxClock == 1

(***************************************************************************)
(* Characters and strings, as Python's str methods and re module treat      *)
(* them.                                                                    *)
(***************************************************************************)
Char(s, i) == SubSeq(s, i, i)

Ascii32 == " !\"#$%&'()*+,-./0123456789:;<=>?@ABCDEFGHIJKLMNOPQRSTUVWXYZ[\\]^_"

Ascii97 == "abcdefghijklmnopqrstuvwxyz{|}~"

\* ord(c)
OrdTab ==
  [c \in {Char(Ascii32, i) : i \in 1..64} |-> 31 + CHOOSE i \in 1..64 : Char(Ascii32, i) = c]
  @@ [c \in {Char(Ascii97, i) : i \in 1..30} |-> 96 + CHOOSE i \in 1..30 : Char(Ascii97, i) = c]
  @@ ("\t" :> 9 @@ "\n" :> 10 @@ "\f" :> 12)

Ord(c) == OrdTab[c]

\* chr(n), for the letters
Chr(n) == IF n < 96 THEN Char(Ascii32, n - 31) ELSE Char(Ascii97, n - 96)

\* s.encode("utf-8"): one byte per character of the alphabet
encode_utf8(s) == [i \in 1..Len(s) |-> Ord(Char(s, i))]

\* str.isspace() and the class \s of re
IsSpace(c) == c \in {" ", "\t", "\n", "\f"}

Min(S) == CHOOSE x \in S : \A y \in S : x <= y

Max(S) == CHOOSE x \in S : \A y \in S : x >= y

\* the elements of a finite set of integers, ascending
Ascending(S) ==
  SubSeq([k \in 1..Cardinality(S) |-> CHOOSE x \in S : Cardinality({y \in S : y < x}) = k - 1],
         1, Cardinality(S))

LowerChar(c) == IF Ord(c) >= 65 /\ Ord(c) <= 90 THEN Chr(Ord(c) + 32) ELSE c

RECURSIVE LowerRange(_, _, _)
LowerRange(s, lo, hi) ==
  IF lo > hi THEN ""
  ELSE IF lo = hi THEN LowerChar(Char(s, lo))
  ELSE LowerRange(s, lo, (lo + hi) \div 2) \o LowerRange(s, ((lo + hi) \div 2) + 1, hi)

\* s.lower()
Lower(s) == LowerRange(s, 1, Len(s))

RECURSIVE NoSpaceRange(_, _, _)
NoSpaceRange(s, lo, hi) ==
  IF lo > hi THEN ""
  ELSE IF lo = hi THEN (IF IsSpace(Char(s, lo)) THEN "" ELSE Char(s, lo))
  ELSE NoSpaceRange(s, lo, (lo + hi) \div 2) \o NoSpaceRange(s, ((lo + hi) \div 2) + 1, hi)

\* re.sub(r"\s+", "", s)
RemoveSpace(s) == NoSpaceRange(s, 1, Len(s))

\* s.strip()
Strip(s) ==
  LET ink == {i \in 1..Len(s) : ~IsSpace(Char(s, i))}
  IN  IF ink = {} THEN "" ELSE SubSeq(s, Min(ink), Max(ink))

\* s.find(sub) + 1: the first position of sub in s, 0 when there is none
Find(s, sub) ==
  LET hits == {i \in 1..(Len(s) - Len(sub) + 1) : SubSeq(s, i, i + Len(sub) - 1) = sub}
  IN  IF hits = {} THEN 0 ELSE Min(hits)

\* sub in s
Contains(s, sub) == Find(s, sub) # 0

\* s.startswith(prefix)
StartsWith(s, prefix) == Len(s) >= Len(prefix) /\ SubSeq(s, 1, Len(prefix)) = prefix

\* s.splitlines(): the line boundaries of the alphabet are newline and form feed
SplitLines(s) ==
  LET ends == Ascending({i \in 1..Len(s) : Char(s, i) \in {"\n", "\f"}})
      n == Len(ends)
      whole == [k \in 1..n |-> SubSeq(s, (IF k = 1 THEN 1 ELSE ends[k - 1] + 1), ends[k] - 1)]
      from == IF n = 0 THEN 1 ELSE ends[n] + 1
  IN  IF from <= Len(s) THEN Append(whole, SubSeq(s, from, Len(s))) ELSE SubSeq(whole, 1, n)

\* f.readline(): the text up to and including the first newline
ReadLine(s) == IF Contains(s, "\n") THEN SubSeq(s, 1, Find(s, "\n")) ELSE s

\* re.split(r"\s+", s)
ReSplitSpace(s) ==
  LET n == Len(s)
      starts == Ascending({i \in 1..n : ~IsSpace(Char(s, i)) /\ (i = 1 \/ IsSpace(Char(s, i - 1)))})
      stop(i) == Min({j \in i..n : j = n \/ IsSpace(Char(s, j + 1))})
      words == [k \in 1..Len(starts) |-> SubSeq(s, starts[k], stop(starts[k]))]
      gaps == {i \in 1..n : IsSpace(Char(s, i))}
  IN  (IF n = 0 \/ 1 \in gaps THEN <<"">> ELSE <<>>)
      \o SubSeq(words, 1, Len(starts))
      \o (IF n \in gaps THEN <<"">> ELSE <<>>)

\* a < b for Python strings: by code point, a proper prefix first
StrLess(a, b) ==
  LET n == IF Len(a) < Len(b) THEN Len(a) ELSE Len(b)
      diff == {i \in 1..n : Char(a, i) # Char(b, i)}
  IN  IF diff = {} THEN Len(a) < Len(b)
      ELSE Ord(Char(a, Min(diff))) < Ord(Char(b, Min(diff)))

RECURSIVE InsertSorted(_, _)
InsertSorted(x, s) ==
  IF s = <<>> THEN <<x>>
  ELSE IF StrLess(x, Head(s)) THEN <<x>> \o s
  ELSE <<Head(s)>> \o InsertSorted(x, Tail(s))

\* a list left in the order it was built (a sort that does nothing)
KeepOrder(l) == l

\* sorted(l) and l.sort() on a list of strings
RECURSIVE SortStrings(_)
SortStrings(l) ==
  IF l = <<>> THEN <<>> ELSE InsertSorted(l[Len(l)], SortStrings(SubSeq(l, 1, Len(l) - 1)))

\* sorted(set(l))
SortedSet(S) ==
  SubSeq([k \in 1..Cardinality(S) |->
            CHOOSE x \in S : Cardinality({y \in S : StrLess(y, x)}) = k - 1],
         1, Cardinality(S))

Range(l) == {l[i] : i \in 1..Len(l)}

\* sep.join(l)
RECURSIVE Join(_, _)
Join(sep, l) ==
  IF l = <<>> THEN ""
  ELSE IF Len(l) = 1 THEN l[1]
  ELSE l[1] \o sep \o Join(sep, Tail(l))

(***************************************************************************)
(* hashlib.sha256(...).hexdigest() (line 219): SHA-256 of FIPS 180-4.  A   *)
(* 32-bit word is the pair <<high 16 bits, low 16 bits>>, so that no       *)
(* intermediate value leaves the range of TLC's integers and every sum is   *)
(* taken modulo 2^32.                                                       *)
(***************************************************************************)
\* The three bitwise functions of SHA-256 (parity, choose, majority) of three
\* 4-bit digits a, b, c, at index a * 256 + b * 16 + c + 1.
XorNib ==
  SubSeq([n \in 1..4096 |->
      1 * ((((((n - 1) \div 256) \div 1) % 2) + (((((n - 1) \div 16) % 16) \div 1) % 2) + ((((n - 1) % 16) \div 1) % 2)) % 2)
    + 2 * ((((((n - 1) \div 256) \div 2) % 2) + (((((n - 1) \div 16) % 16) \div 2) % 2) + ((((n - 1) % 16) \div 2) % 2)) % 2)
    + 4 * ((((((n - 1) \div 256) \div 4) % 2) + (((((n - 1) \div 16) % 16) \div 4) % 2) + ((((n - 1) % 16) \div 4) % 2)) % 2)
    + 8 * ((((((n - 1) \div 256) \div 8) % 2) + (((((n - 1) \div 16) % 16) \div 8) % 2) + ((((n - 1) % 16) \div 8) % 2)) % 2)], 1, 4096)
ChNib ==
  SubSeq([n \in 1..4096 |->
      1 * (IF ((((n - 1) \div 256) \div 1) % 2) = 1 THEN (((((n - 1) \div 16) % 16) \div 1) % 2) ELSE ((((n - 1) % 16) \div 1) % 2))
    + 2 * (IF ((((n - 1) \div 256) \div 2) % 2) = 1 THEN (((((n - 1) \div 16) % 16) \div 2) % 2) ELSE ((((n - 1) % 16) \div 2) % 2))
    + 4 * (IF ((((n - 1) \div 256) \div 4) % 2) = 1 THEN (((((n - 1) \div 16) % 16) \div 4) % 2) ELSE ((((n - 1) % 16) \div 4) % 2))
    + 8 * (IF ((((n - 1) \div 256) \div 8) % 2) = 1 THEN (((((n - 1) \div 16) % 16) \div 8) % 2) ELSE ((((n - 1) % 16) \div 8) % 2))], 1, 4096)
MajNib ==
  SubSeq([n \in 1..4096 |->
      1 * (IF ((((n - 1) \div 256) \div 1) % 2) + (((((n - 1) \div 16) % 16) \div 1) % 2) + ((((n - 1) % 16) \div 1) % 2) >= 2 THEN 1 ELSE 0)
    + 2 * (IF ((((n - 1) \div 256) \div 2) % 2) + (((((n - 1) \div 16) % 16) \div 2) % 2) + ((((n - 1) % 16) \div 2) % 2) >= 2 THEN 1 ELSE 0)
    + 4 * (IF ((((n - 1) \div 256) \div 4) % 2) + (((((n - 1) \div 16) % 16) \div 4) % 2) + ((((n - 1) % 16) \div 4) % 2) >= 2 THEN 1 ELSE 0)
    + 8 * (IF ((((n - 1) \div 256) \div 8) % 2) + (((((n - 1) \div 16) % 16) \div 8) % 2) + ((((n - 1) % 16) \div 8) % 2) >= 2 THEN 1 ELSE 0)], 1, 4096)

Op16(tab, x, y, z) ==
    tab[(x \div 4096) * 256 + (y \div 4096) * 16 + (z \div 4096) + 1] * 4096
  + tab[((x \div 256) % 16) * 256 + ((y \div 256) % 16) * 16 + ((z \div 256) % 16) + 1] * 256
  + tab[((x \div 16) % 16) * 256 + ((y \div 16) % 16) * 16 + ((z \div 16) % 16) + 1] * 16
  + tab[(x % 16) * 256 + (y % 16) * 16 + (z % 16) + 1]

Op32(tab, a, b, c) == <<Op16(tab, a[1], b[1], c[1]), Op16(tab, a[2], b[2], c[2])>>

Add32(a, b) ==
  LET lo == a[2] + b[2]
  IN  <<(a[1] + b[1] + (lo \div 65536)) % 65536, lo % 65536>>

\* rotate right by n bits, 0 < n < 32
RotR(a, n) ==
  LET hi == IF n >= 16 THEN a[2] ELSE a[1]
      lo == IF n >= 16 THEN a[1] ELSE a[2]
      p == 2 ^ (n % 16)
      q == 2 ^ (16 - (n % 16))
  IN  IF n % 16 = 0 THEN <<hi, lo>>
      ELSE <<(hi \div p) + (lo % p) * q, (lo \div p) + (hi % p) * q>>

\* shift right by n bits, 0 < n < 16
ShR(a, n) ==
  LET p == 2 ^ n
      q == 2 ^ (16 - n)
  IN  <<a[1] \div p, (a[2] \div p) + (a[1] % p) * q>>

Sha256K ==
  <<<<17034, 12184>>, <<28983, 17553>>, <<46528, 64463>>, <<59829, 56229>>,
    <<14678, 49755>>, <<23025, 4593>>, <<37439, 33444>>, <<43804, 24277>>,
    <<55303, 43672>>, <<4739, 23297>>, <<9265, 34238>>, <<21772, 32195>>,
    <<29374, 23924>>, <<32990, 45566>>, <<39900, 1703>>, <<49563, 61812>>,
    <<58523, 27073>>, <<61374, 18310>>, <<4033, 40390>>, <<9228, 41420>>,
    <<11753, 11375>>, <<19060, 33962>>, <<23728, 43484>>, <<30457, 35034>>,
    <<38974, 20818>>, <<43057, 50797>>, <<45059, 10184>>, <<48985, 32711>>,
    <<50912, 3059>>, <<54695, 37191>>, <<1738, 25425>>, <<5161, 10599>>,
    <<10167, 2693>>, <<11803, 8504>>, <<19756, 28156>>, <<21304, 3347>>,
    <<25866, 29524>>, <<30314, 2747>>, <<33218, 51502>>, <<37490, 11397>>,
    <<41663, 59553>>, <<43034, 26187>>, <<49739, 35696>>, <<51052, 20899>>,
    <<53650, 59417>>, <<54937, 1572>>, <<62478, 13701>>, <<4202, 41072>>,
    <<6564, 49430>>, <<7735, 27656>>, <<10056, 30540>>, <<13488, 48309>>,
    <<14620, 3251>>, <<20184, 43594>>, <<23452, 51791>>, <<26670, 28659>>,
    <<29839, 33518>>, <<30885, 25455>>, <<33992, 30740>>, <<36039, 520>>,
    <<37054, 65530>>, <<42064, 27883>>, <<48889, 41975>>, <<50801, 30962>>>>

Sha256H0 ==
  <<<<27145, 58983>>, <<47975, 44677>>, <<15470, 62322>>, <<42319, 62778>>,
    <<20750, 21119>>, <<39685, 26764>>, <<8067, 55723>>, <<23520, 52505>>>>

BigSigma0(a) == Op32(XorNib, RotR(a, 2), RotR(a, 13), RotR(a, 22))

BigSigma1(e) == Op32(XorNib, RotR(e, 6), RotR(e, 11), RotR(e, 25))

SmallSigma0(x) == Op32(XorNib, RotR(x, 7), RotR(x, 18), ShR(x, 3))

SmallSigma1(x) == Op32(XorNib, RotR(x, 17), RotR(x, 19), ShR(x, 10))

Ch(e, f, g) == Op32(ChNib, e, f, g)

Maj(a, b, c) == Op32(MajNib, a, b, c)

\* One round.  st = <<working variables a..h, the 16 latest words of the
\* message schedule>>: w[1] is W[t], and the word appended is W[t + 16].
Sha256Round(st, t) ==
  LET s == st[1]
      w == st[2]
      T1 == Add32(Add32(Add32(s[8], BigSigma1(s[5])),
                        Add32(Ch(s[5], s[6], s[7]), Sha256K[t])), w[1])
      T2 == Add32(BigSigma0(s[1]), Maj(s[1], s[2], s[3]))
      nw == Add32(Add32(SmallSigma1(w[15]), w[10]), Add32(SmallSigma0(w[2]), w[1]))
  IN  << <<Add32(T1, T2), s[1], s[2], s[3], Add32(s[4], T1), s[5], s[6], s[7]>>,
         Append(Tail(w), nw) >>

RECURSIVE Sha256Rounds(_, _)
Sha256Rounds(st, t) ==
  IF t > 64 \/ Len(st[1]) # 8 THEN st ELSE Sha256Rounds(Sha256Round(st, t), t + 1)

Sha256Compress(h, block) ==
  LET s == Sha256Rounds(<<h, block>>, 1)[1]
  IN  <<Add32(h[1], s[1]), Add32(h[2], s[2]), Add32(h[3], s[3]), Add32(h[4], s[4]),
        Add32(h[5], s[5]), Add32(h[6], s[6]), Add32(h[7], s[7]), Add32(h[8], s[8])>>

\* the message, a 1 bit, zeros up to 56 mod 64 bytes, the bit length on 8 bytes
Sha256Pad(bytes) ==
  LET n == Len(bytes)
      z == (119 - (n % 64)) % 64
      bits == n * 8
  IN  bytes \o <<128>> \o [i \in 1..z |-> 0]
      \o <<0, 0, 0, 0, (bits \div 16777216) % 256, (bits \div 65536) % 256,
           (bits \div 256) % 256, bits % 256>>

\* big-endian 32-bit words
Sha256Words(bytes) ==
  [i \in 1..(Len(bytes) \div 4) |->
     <<bytes[4 * i - 3] * 256 + bytes[4 * i - 2], bytes[4 * i - 1] * 256 + bytes[4 * i]>>]

RECURSIVE Sha256Blocks(_, _)
Sha256Blocks(h, words) ==
  IF Len(words) = 0 THEN h
  ELSE Sha256Blocks(Sha256Compress(h, SubSeq(words, 1, 16)), SubSeq(words, 17, Len(words)))

Hex4(x) ==
  Char("0123456789abcdef", (x \div 4096) + 1) \o Char("0123456789abcdef", ((x \div 256) % 16) + 1)
  \o Char("0123456789abcdef", ((x \div 16) % 16) + 1) \o Char("0123456789abcdef", (x % 16) + 1)

RECURSIVE HexDigest(_)
HexDigest(h) ==
  IF Len(h) = 0 THEN "" ELSE Hex4(Head(h)[1]) \o Hex4(Head(h)[2]) \o HexDigest(Tail(h))

\* hashlib.sha256(s.encode("utf-8")).hexdigest()
sha256_hexdigest(s) == HexDigest(Sha256Blocks(Sha256H0, Sha256Words(Sha256Pad(encode_utf8(s)))))

(***************************************************************************)
(* Files as the script sees them: a read either fails (any exception of    *)
(* open/read, caught where the read is made) or returns the text.           *)
(***************************************************************************)
FileErr == [st |-> "error", text |-> ""]

FileOk(t) == [st |-> "ok", text |-> t]

\* read_first_line(p)
read_first_line(f) ==
  IF f.st # "ok" THEN "" ELSE Lower(RemoveSpace(Strip(ReadLine(f.text))))

\* read_all(p)
read_all(f) == IF f.st # "ok" THEN "" ELSE f.text

\* is_tegra(), of /sys/firmware/devicetree/base/compatible
is_tegra(compat) == Contains(Lower(read_all(compat)), "nvidia,tegra")

\* is_wsl(), of the WSL_* environment variables and /proc/sys/kernel/osrelease
is_wsl(wsl_env, osrelease) ==
  IF wsl_env THEN TRUE
  ELSE Contains(Lower(read_all(osrelease)), "microsoft")
       \/ Contains(Lower(read_all(osrelease)), "wsl")

KEEP_FLAGS_X86 == {"sse2", "sse4_2", "avx", "avx2", "avx512f"}

KEEP_FLAGS_ARM == {"asimd", "aes", "crc32", "sha1", "sha2", "atomics", "asimdrdm"}

\* the fields parse_cpuinfo starts from (lines 52-54); stop is the loop's break
CpuFields0 ==
  [stop |-> FALSE, vendor |-> "", family |-> "", model |-> "", stepping |-> "",
   flags |-> "", impl |-> "", arch |-> "", variant |-> "", part |-> "", rev |-> ""]

\* one iteration of the loop over the lines (lines 56-82)
CpuLine(f, line) ==
  IF Strip(line) = "" THEN [f EXCEPT !.stop = TRUE]
  ELSE IF ~Contains(line, ":") THEN f
  ELSE LET p == Find(line, ":")
           k == Lower(RemoveSpace(SubSeq(line, 1, p - 1)))
           v == Lower(Strip(SubSeq(line, p + 1, Len(line))))
       IN  CASE k = "vendor_id" -> [f EXCEPT !.vendor = RemoveSpace(v)]
             [] k \in {"cpufamily", "cpu family"} -> [f EXCEPT !.family = RemoveSpace(v)]
             [] k = "model" -> [f EXCEPT !.model = RemoveSpace(v)]
             [] k = "stepping" -> [f EXCEPT !.stepping = RemoveSpace(v)]
             [] k \in {"flags", "features"} -> [f EXCEPT !.flags = v]
             [] k = "cpuimplementer" -> [f EXCEPT !.impl = RemoveSpace(v)]
             [] k = "cpuarchitecture" -> [f EXCEPT !.arch = RemoveSpace(v)]
             [] k = "cpuvariant" -> [f EXCEPT !.variant = RemoveSpace(v)]
             [] k = "cpupart" -> [f EXCEPT !.part = RemoveSpace(v)]
             [] k = "cpurevision" -> [f EXCEPT !.rev = RemoveSpace(v)]
             [] OTHER -> f

RECURSIVE CpuLines(_, _, _)
CpuLines(f, lines, i) ==
  IF f.stop \/ i > Len(lines) THEN f ELSE CpuLines(CpuLine(f, lines[i]), lines, i + 1)

\* sorted({t for t in re.split(r"\s+", flags) if t in keep}), comma-joined
IsaSubset(flags, keep) == Join(",", SortedSet(Range(ReSplitSpace(flags)) \cap keep))

NoCpu == [ok |-> FALSE, vendor |-> "", sig |-> "", isa |-> ""]

\* a parser that would try the ARM fields before the x86 fields
parse_cpuinfo_arm_first(file) ==
  LET txt == read_all(file)
      f == CpuLines(CpuFields0, SplitLines(txt), 1)
  IN  IF txt = "" THEN NoCpu
      ELSE IF f.impl # "" /\ f.arch # "" /\ f.variant # "" /\ f.part # "" /\ f.rev # ""
      THEN [ok |-> TRUE, vendor |-> f.impl,
            sig |-> f.arch \o "-" \o f.variant \o "-" \o f.part \o "-" \o f.rev,
            isa |-> IsaSubset(f.flags, KEEP_FLAGS_ARM)]
      ELSE IF f.vendor # "" /\ f.family # "" /\ f.model # "" /\ f.stepping # ""
      THEN [ok |-> TRUE, vendor |-> f.vendor,
            sig |-> f.family \o "-" \o f.model \o "-" \o f.stepping,
            isa |-> IsaSubset(f.flags, KEEP_FLAGS_X86)]
      ELSE NoCpu

\* parse_cpuinfo(), of the file /proc/cpuinfo; NoCpu is None
parse_cpuinfo(file) ==
  LET txt == read_all(file)
      f == CpuLines(CpuFields0, SplitLines(txt), 1)
  IN  IF txt = "" THEN NoCpu
      ELSE IF f.vendor # "" /\ f.family # "" /\ f.model # "" /\ f.stepping # ""
      THEN [ok |-> TRUE, vendor |-> f.vendor,
            sig |-> f.family \o "-" \o f.model \o "-" \o f.stepping,
            isa |-> IsaSubset(f.flags, KEEP_FLAGS_X86)]
      ELSE IF f.impl # "" /\ f.arch # "" /\ f.variant # "" /\ f.part # "" /\ f.rev # ""
      THEN [ok |-> TRUE, vendor |-> f.impl,
            sig |-> f.arch \o "-" \o f.variant \o "-" \o f.part \o "-" \o f.rev,
            isa |-> IsaSubset(f.flags, KEEP_FLAGS_ARM)]
      ELSE NoCpu

\* the enumerations of a directory: iterdir() yields its entries in any order
Perms(S) == {l \in [1..Cardinality(S) -> S] : Range(l) = S}

RECURSIVE InsertByName(_, _)
InsertByName(e, s) ==
  IF s = <<>> THEN <<e>>
  ELSE IF StrLess(e.name, Head(s).name) THEN <<e>> \o s
  ELSE <<Head(s)>> \o InsertByName(e, Tail(s))

\* sorted(base.iterdir()): paths of one directory, ordered by name
RECURSIVE SortByName(_)
SortByName(l) ==
  IF l = <<>> THEN <<>> ELSE InsertByName(l[Len(l)], SortByName(SubSeq(l, 1, Len(l) - 1)))

\* the lines of one information file that name a UUID (lines 110-115)
InfoUuids(text) ==
  LET L == SplitLines(text)
      l(i) == Lower(Strip(L[i]))
      hits == Ascending({i \in 1..Len(L) : Contains(l(i), "gpu uuid:") /\ Contains(l(i), "gpu-")})
  IN  SubSeq([k \in 1..Len(hits) |->
                SubSeq(l(hits[k]), Find(l(hits[k]), "gpu-"), Len(l(hits[k])))],
             1, Len(hits))

\* the loop over the device directories (lines 107-117)
RECURSIVE DriverUuids(_)
DriverUuids(dirs) ==
  IF dirs = <<>> THEN <<>>
  ELSE (IF Head(dirs).info.st = "ok" THEN InfoUuids(Head(dirs).info.text) ELSE <<>>)
       \o DriverUuids(Tail(dirs))

IsUuidChar(c) ==
  \/ c = "-"
  \/ Ord(c) >= 48 /\ Ord(c) <= 57
  \/ Ord(c) >= 65 /\ Ord(c) <= 90
  \/ Ord(c) >= 97 /\ Ord(c) <= 122

\* where the text after "UUID:" and its white space starts
AfterSpace(line, from) ==
  Min({j \in from..(Len(line) + 1) : j = Len(line) + 1 \/ ~IsSpace(Char(line, j))})

\* _UUID_RE matches at position i of the line
UuidAt(line, i) ==
  /\ i + 4 <= Len(line)
  /\ Lower(SubSeq(line, i, i + 4)) = "uuid:"
  /\ AfterSpace(line, i + 5) + 4 <= Len(line)
  /\ Lower(SubSeq(line, AfterSpace(line, i + 5), AfterSpace(line, i + 5) + 3)) = "gpu-"
  /\ IsUuidChar(Char(line, AfterSpace(line, i + 5) + 4))

\* _UUID_RE.search(line).group(1), "" when the line has no match
UuidSearch(line) ==
  LET hits == {i \in 1..Len(line) : UuidAt(line, i)}
      g == AfterSpace(line, Min(hits) + 5)
      last == Max({e \in (g + 4)..Len(line) : \A m \in (g + 4)..e : IsUuidChar(Char(line, m))})
  IN  IF hits = {} THEN "" ELSE SubSeq(line, g, last)

\* the loop over the lines of nvidia-smi -L (lines 122-125)
SmiUuids(out) ==
  LET L == SplitLines(out)
      hits == Ascending({i \in 1..Len(L) : UuidSearch(L[i]) # ""})
  IN  SubSeq([k \in 1..Len(hits) |-> Lower(UuidSearch(L[hits[k]]))], 1, Len(hits))

\* collect_gpu_uuids(), of the directory /proc/driver/nvidia/gpus as it is
\* enumerated and of the command nvidia-smi -L.  raised: the call ended with
\* an exception; smi_called: the command was run.
collect_gpu_uuids(dir, listing, smi) ==
  LET found == IF dir.st = "ok" THEN DriverUuids(SortByName(listing)) ELSE <<>>
      fromsmi == IF smi.st = "ok" THEN SmiUuids(smi.text) ELSE <<>>
  IN  IF dir.st = "unlistable"
      THEN [raised |-> TRUE, uuids |-> <<>>, smi_called |-> FALSE]
      ELSE IF found # <<>>
      THEN [raised |-> FALSE, uuids |-> SortedSet(Range(found)), smi_called |-> FALSE]
      ELSE [raised |-> FALSE, uuids |-> SortedSet(Range(fromsmi)), smi_called |-> TRUE]

\* one iteration of the loop over /sys/block (lines 139-154)
EmmcCid(e) ==
  IF ~StartsWith(e.name, "mmcblk") THEN <<>>
  ELSE IF e.removable.st # "ok" \/ Strip(e.removable.text) = "1" THEN <<>>
  ELSE IF e.cid.st # "ok" \/ RemoveSpace(Lower(Strip(e.cid.text))) = "" THEN <<>>
  ELSE <<RemoveSpace(Lower(Strip(e.cid.text)))>>

RECURSIVE EmmcCids(_)
EmmcCids(listing) ==
  IF listing = <<>> THEN <<>> ELSE EmmcCid(Head(listing)) \o EmmcCids(Tail(listing))

\* a reader that would return the first CID enumerated instead of the smallest
read_emmc_cid_first(blk, listing) ==
  IF blk.st = "missing" THEN [raised |-> FALSE, cid |-> ""]
  ELSE IF blk.st = "unlistable" THEN [raised |-> TRUE, cid |-> ""]
  ELSE IF EmmcCids(listing) = <<>> THEN [raised |-> FALSE, cid |-> ""]
  ELSE [raised |-> FALSE, cid |-> EmmcCids(listing)[1]]

\* read_emmc_cid(), of the directory /sys/block as it is enumerated
read_emmc_cid(blk, listing) ==
  IF blk.st = "missing" THEN [raised |-> FALSE, cid |-> ""]
  ELSE IF blk.st = "unlistable" THEN [raised |-> TRUE, cid |-> ""]
  ELSE IF EmmcCids(listing) = <<>> THEN [raised |-> FALSE, cid |-> ""]
  ELSE [raised |-> FALSE, cid |-> SortStrings(EmmcCids(listing))[1]]

\* read_board_name()
read_board_name(board, wsl_env, osrelease) ==
  IF read_first_line(board) # "" THEN read_first_line(board)
  ELSE IF is_wsl(wsl_env, osrelease) THEN "wsl"
  ELSE ""

(***************************************************************************)
(* The machine: what the files, directories and commands the script reads   *)
(* show.  A CPU is the blocks of key/value lines of /proc/cpuinfo, a GPU a   *)
(* device directory with its information file, a block device a directory   *)
(* of /sys/block with its removable and device/cid files; writable tells     *)
(* whether the output file can be opened for writing.                       *)
(***************************************************************************)
RECURSIVE CpuBlockText(_)
CpuBlockText(lines) ==
  IF lines = <<>> THEN "\n"
  ELSE Head(lines)[1] \o "\t: " \o Head(lines)[2] \o "\n" \o CpuBlockText(Tail(lines))

RECURSIVE CpuText(_)
CpuText(blocks) ==
  IF blocks = <<>> THEN "" ELSE CpuBlockText(Head(blocks)) \o CpuText(Tail(blocks))

\* /proc/cpuinfo of a CPU
ProcCpuinfo(cpu) == IF cpu.readable THEN FileOk(CpuText(cpu.blocks)) ELSE FileErr

\* <device>/information of a GPU
GpuInformation(g) ==
  IF g.readable
  THEN FileOk("Model: \t\t NVIDIA RTX A2000\nIRQ:   \t 16\nGPU UUID: \t " \o g.uuid
              \o "\nVideo BIOS: \t 94.06.2f.00.07\n")
  ELSE FileErr

\* an enumeration of /proc/driver/nvidia/gpus as paths with their files
GpuListing(l) ==
  SubSeq([i \in 1..Len(l) |-> [name |-> l[i].name, info |-> GpuInformation(l[i])]], 1, Len(l))

RECURSIVE SmiLines(_, _)
SmiLines(gpus, i) ==
  IF i > Len(gpus) THEN ""
  ELSE "GPU " \o Chr(47 + i) \o ": NVIDIA RTX A2000 (UUID: " \o gpus[i] \o ")\n"
       \o SmiLines(gpus, i + 1)

\* the output of nvidia-smi -L, or its failure
NvidiaSmiL(smi) ==
  IF smi.st # "ok" THEN FileErr
  ELSE IF smi.gpus = <<>> THEN FileOk("No devices were found\n")
  ELSE FileOk(SmiLines(smi.gpus, 1))

X86Lines ==
  << <<"processor", "0">>, <<"vendor_id", "GenuineIntel">>, <<"cpu family", "6">>,
     <<"model", "158">>, <<"model name", "Intel(R) Core(TM) i7-8700K CPU @ 3.70GHz">>,
     <<"stepping", "10">>, <<"flags", "fpu vme sse sse2 ssse3 sse4_1 sse4_2 avx avx2">> >>

X86Lines2 ==
  << <<"processor", "1">>, <<"vendor_id", "GenuineIntel">>, <<"cpu family", "6">>,
     <<"model", "151">>, <<"stepping", "2">>, <<"flags", "fpu avx512f">> >>

ArmLines ==
  << <<"processor", "0">>, <<"BogoMIPS", "62.50">>,
     <<"Features", "fp asimd evtstrm aes pmull sha1 sha2 crc32 atomics">>,
     <<"CPU implementer", "0x41">>, <<"CPU architecture", "8">>, <<"CPU variant", "0x1">>,
     <<"CPU part", "0xd42">>, <<"CPU revision", "1">> >>

\* both profiles complete in the first block
BothLines ==
  << <<"vendor_id", "AuthenticAMD">>, <<"cpu family", "25">>, <<"model", "33">>,
     <<"stepping", "2">>, <<"CPU implementer", "0x41">>, <<"CPU architecture", "8">>,
     <<"CPU variant", "0x1">>, <<"CPU part", "0xd42">>, <<"CPU revision", "1">>,
     <<"flags", "sse2 asimd avx">> >>

\* x86 without its stepping, ARM complete, no kept flag
ArmFallbackLines ==
  << <<"vendor_id", "AuthenticAMD">>, <<"cpu family", "25">>, <<"model", "33">>,
     <<"Features", "fp evtstrm">>, <<"CPU implementer", "0x4e">>,
     <<"CPU architecture", "8">>, <<"CPU variant", "0x0">>, <<"CPU part", "0x004">>,
     <<"CPU revision", "0">> >>

NoFlagLines ==
  << <<"vendor_id", "GenuineIntel">>, <<"cpu family", "6">>, <<"model", "23">>,
     <<"stepping", "10">>, <<"flags", "fpu vme sse">> >>

HalfLines == << <<"vendor_id", "GenuineIntel">>, <<"cpu family", "6">>, <<"model", "158">> >>

RestLines == << <<"stepping", "10">>, <<"flags", "sse2">> >>

Cpu(blocks) == [readable |-> TRUE, blocks |-> blocks]

CpuX86 == Cpu(<<X86Lines, X86Lines2>>)

CpuArm == Cpu(<<ArmLines>>)

Cpus ==
  {CpuX86, CpuArm, Cpu(<<BothLines>>), Cpu(<<ArmFallbackLines>>), Cpu(<<NoFlagLines>>),
   Cpu(<<HalfLines>>), Cpu(<<HalfLines, RestLines>>), Cpu(<<HalfLines, ArmLines>>),
   Cpu(<<>>), [readable |-> FALSE, blocks |-> <<>>]}

Gpu0 == [name |-> "0000:65:00.0", readable |-> TRUE, uuid |-> "GPU-b2f1d7a4"]

Gpu1 == [name |-> "0000:17:00.0", readable |-> TRUE, uuid |-> "GPU-D30C55AA"]

Gpu2 == [name |-> "0000:b3:00.0", readable |-> FALSE, uuid |-> "GPU-5e91c0de"]

\* a second function of the first board: the same UUID under another address
Gpu3 == [name |-> "0000:65:00.1", readable |-> TRUE, uuid |-> "GPU-B2F1D7A4"]

GpuPool == {Gpu0, Gpu1, Gpu2, Gpu3}

GpuDirMissing == [st |-> "missing", entries |-> {}]

GpuDirUnlistable == [st |-> "unlistable", entries |-> {}]

GpuDirOf(S) == [st |-> "ok", entries |-> S]

GpuDirs ==
  {GpuDirMissing, GpuDirUnlistable}
  \cup {GpuDirOf(S) : S \in {T \in SUBSET GpuPool : Cardinality(T) <= MaxGpus}}

SmiErr == [st |-> "error", gpus |-> <<>>]

SmiOf(gpus) == [st |-> "ok", gpus |-> gpus]

Smis ==
  {SmiErr, SmiOf(<<>>), SmiOf(<<"GPU-b2f1d7a4">>),
   SmiOf(<<"GPU-d30c55aa", "GPU-B2F1D7A4", "GPU-d30c55aa">>)}

Emmc0 ==
  [name |-> "mmcblk0", removable |-> FileOk("0\n"), cid |-> FileOk("4501004447343033\n")]

\* an SD card
Emmc1 ==
  [name |-> "mmcblk1", removable |-> FileOk("1\n"), cid |-> FileOk("035344534C313647\n")]

Emmc2 ==
  [name |-> "mmcblk2", removable |-> FileOk("0\n"), cid |-> FileOk("1501004D41473444\n")]

\* a partition of the first device: no device/cid of its own
Emmc0Boot == [name |-> "mmcblk0boot0", removable |-> FileOk("0\n"), cid |-> FileErr]

Emmc3 == [name |-> "mmcblk3", removable |-> FileErr, cid |-> FileOk("fe014a4d4b343047\n")]

Sda == [name |-> "sda", removable |-> FileOk("0\n"), cid |-> FileErr]

BlockMissing == [st |-> "missing", entries |-> {}]

BlockUnlistable == [st |-> "unlistable", entries |-> {}]

BlockOf(S) == [st |-> "ok", entries |-> S]

Blocks ==
  {BlockMissing, BlockUnlistable, BlockOf({}), BlockOf({Sda}), BlockOf({Emmc0, Emmc0Boot}),
   BlockOf({Emmc1, Sda}), BlockOf({Emmc0, Emmc2}), BlockOf({Emmc2, Emmc1, Emmc0}),
   BlockOf({Emmc3, Emmc1})}

Boards == {FileErr, FileOk(" \n"), FileOk("X570 AORUS PRO\n"), FileOk("Jetson AGX Orin\n")}

OsReleases ==
  {FileErr, FileOk("6.8.0-45-generic\n"), FileOk("5.15.153.1-microsoft-standard-WSL2\n"),
   FileOk("4.4.0-19041-Microsoft\n")}

Compats ==
  {FileErr, FileOk("nvidia,p3737-0000+p3701-0000 NVIDIA,Tegra234"),
   FileOk("raspberrypi,4-model-b brcm,bcm2711")}

Unames == {"Linux 6.8.0-45-generic", "Linux 5.15.148-tegra"}

Desktop ==
  [board |-> FileOk("X570 AORUS PRO\n"), wsl_env |-> FALSE,
   osrelease |-> FileOk("6.8.0-45-generic\n"), cpu |-> CpuX86,
   gpu_dir |-> GpuDirOf({Gpu0, Gpu1}), smi |-> SmiOf(<<"GPU-b2f1d7a4">>),
   compat |-> FileErr, block |-> BlockOf({Sda}),
   uname |-> "Linux 6.8.0-45-generic", dockerenv |-> FALSE, writable |-> TRUE]

Jetson ==
  [board |-> FileOk("Jetson AGX Orin\n"), wsl_env |-> FALSE,
   osrelease |-> FileErr, cpu |-> CpuArm,
   gpu_dir |-> GpuDirMissing, smi |-> SmiErr,
   compat |-> FileOk("nvidia,p3737-0000+p3701-0000 NVIDIA,Tegra234"),
   block |-> BlockOf({Emmc0, Emmc0Boot}),
   uname |-> "Linux 5.15.148-tegra", dockerenv |-> TRUE, writable |-> TRUE]

Wsl ==
  [board |-> FileErr, wsl_env |-> TRUE,
   osrelease |-> FileOk("5.15.153.1-microsoft-standard-WSL2\n"), cpu |-> CpuX86,
   gpu_dir |-> GpuDirMissing, smi |-> SmiOf(<<"GPU-b2f1d7a4">>),
   compat |-> FileErr, block |-> BlockOf({Sda}),
   uname |-> "Linux 6.8.0-45-generic", dockerenv |-> FALSE, writable |-> TRUE]

BaseMachines == {Desktop, Jetson, Wsl}

\* a machine and the machines that differ from it in one source
Variants(m) ==
  {[m EXCEPT !.board = v] : v \in Boards}
  \cup {[m EXCEPT !.wsl_env = v] : v \in BOOLEAN}
  \cup {[m EXCEPT !.osrelease = v] : v \in OsReleases}
  \cup {[m EXCEPT !.cpu = v] : v \in Cpus}
  \cup {[m EXCEPT !.gpu_dir = v] : v \in GpuDirs}
  \cup {[m EXCEPT !.smi = v] : v \in Smis}
  \cup {[m EXCEPT !.compat = v] : v \in Compats}
  \cup {[m EXCEPT !.block = v] : v \in Blocks}
  \cup {[m EXCEPT !.uname = v] : v \in Unames}
  \cup {[m EXCEPT !.dockerenv = v] : v \in BOOLEAN}
  \cup {[m EXCEPT !.writable = v] : v \in BOOLEAN}

Machines == UNION {Variants(m) : m \in BaseMachines}

(***************************************************************************)
(* The command line.  features is <<>> when --features is not given and     *)
(* <<l>> when it is given with the names l.                                 *)
(***************************************************************************)
FeatureNames == {"b", "a"}

FeatureLists ==
  UNION {[1..n -> FeatureNames] : n \in 0..MaxFeatures} \cup {<<"lidar", "AutoDrive", "HDMap">>}

ArgvDefault == [out |-> "", features |-> <<>>, customer |-> ""]

Argvs ==
  {[ArgvDefault EXCEPT !.out = v] : v \in {"", "req.json", "out/acme.json"}}
  \cup {[ArgvDefault EXCEPT !.customer = v] : v \in {"", "ACME"}}
  \cup {[ArgvDefault EXCEPT !.features = <<l>>] : l \in FeatureLists}

\* time.time() of the run, in seconds
BaseTime == 1700000000

Clock == BaseTime..(BaseTime + MaxClock)

(***************************************************************************)
(* One run of the script.                                                   *)
(*   pc        where main() is: "start", "board", "cpu", "gpu", "tegra",      *)
(*             "emmc", "sort", "hash", "build", "emit"; then "done" (main     *)
(*             returned), "exited" (sys.exit(3)) or "crashed" (an exception  *)
(*             left main)                                                    *)
(*   written   the files written, as [name, json]                            *)
(*   exitcode  <<>> while the process runs, then <<code>>                    *)
(*   smi_calls how many times nvidia-smi was run                             *)
(*   prev      what an earlier run on the same machine produced (<<>>: no    *)
(*             earlier run)                                                  *)
(*   order     the order in which the collectors still have to contribute    *)
(***************************************************************************)
VARIABLES env, argv, pc, args, bn, ci, uuids, parts, hwid, outname, req, written,
          stdout, stderr, exitcode, smi_calls, prev, order

vars == <<env, argv, pc, args, bn, ci, uuids, parts, hwid, outname, req, written,
          stdout, stderr, exitcode, smi_calls, prev, order>>

\* the variables of one process, before main() runs
Fresh ==
  /\ args = ArgvDefault
  /\ bn = ""
  /\ ci = NoCpu
  /\ uuids = <<>>
  /\ parts = <<>>
  /\ hwid = ""
  /\ outname = ""
  /\ req = <<>>
  /\ written = <<>>
  /\ stdout = <<>>
  /\ stderr = <<>>
  /\ exitcode = <<>>
  /\ smi_calls = 0

CodeOrder == <<"board", "cpu", "gpu">>

\* the runs explored: every machine with the default command line, and the
\* three base machines with every command line
Runs == (Machines \X {ArgvDefault}) \cup (BaseMachines \X Argvs)

Init ==
  /\ \E r \in Runs : env = r[1] /\ argv = r[2]
  /\ pc = "start"
  /\ Fresh
  /\ prev = <<>>
  /\ order = CodeOrder

\* sys.exit(3) after the message
Exit3(msg) ==
  /\ pc' = "exited"
  /\ stderr' = Append(stderr, msg)
  /\ exitcode' = <<3>>

\* the path the script was started with, as the interpreter names it
Script == "/collect_hwid.py"

\* the first line of the entry of one frame
FrameHead(file, line, fn) == "  File \"" \o file \o "\", line " \o line \o ", in " \o fn

\* the entries of the frames of the script: the head, the source line and,
\* when the failing call is only a part of the line, the marks under it
ModuleFrame == <<FrameHead(Script, "242", "<module>"), "    main()">>

CalcFrame ==
  <<FrameHead(Script, "218", "main"),
    "    parts = calc_components()",
    "            ^^^^^^^^^^^^^^^^^">>

GpuCallFrame ==
  <<FrameHead(Script, "188", "calc_components"),
    "    uuids = collect_gpu_uuids()",
    "            ^^^^^^^^^^^^^^^^^^^">>

GpuCountFrame ==
  <<FrameHead(Script, "233", "main"),
    "    \"gpu_count\": len([*collect_gpu_uuids()]),",
    "                       ^^^^^^^^^^^^^^^^^^^">>

GpuIterFrame ==
  <<FrameHead(Script, "107", "collect_gpu_uuids"),
    "    for d in sorted(base.iterdir()):",
    "             ^^^^^^^^^^^^^^^^^^^^^^">>

CidCallFrame ==
  <<FrameHead(Script, "197", "calc_components"),
    "    cid = read_emmc_cid()",
    "          ^^^^^^^^^^^^^^^">>

BlockIterFrame ==
  <<FrameHead(Script, "138", "read_emmc_cid"), "    for e in base.iterdir():">>

OpenFrame ==
  <<FrameHead(Script, "236", "main"),
    "    with open(outname, \"w\") as f:",
    "         ^^^^^^^^^^^^^^^^^^">>

\* the entry of Path.iterdir (CPython 3.11); shown: the interpreter finds the
\* source file of its library and prints the line with its marks
IterdirFrame(shown) ==
  <<FrameHead("/usr/local/lib/python3.11/pathlib.py", "931", "iterdir")>>
  \o (IF shown THEN <<"    for name in os.listdir(self):", "                ^^^^^^^^^^^^^^^^">>
      ELSE <<>>)

\* the frames between main() and the listing that fails
GpuDirTraces(caller) ==
  {ModuleFrame \o caller \o GpuIterFrame \o IterdirFrame(shown) : shown \in BOOLEAN}

BlockDirTraces ==
  {ModuleFrame \o CalcFrame \o CidCallFrame \o BlockIterFrame \o IterdirFrame(shown) :
     shown \in BOOLEAN}

TracebackHeader == "Traceback (most recent call last):"

\* an exception nobody catches: the interpreter prints the traceback (the
\* header, the entries of the frames, the exception) and ends with status 1
Raise(frames, exc) ==
  /\ pc' = "crashed"
  /\ stderr' = stderr \o <<TracebackHeader>> \o frames \o <<exc>>
  /\ exitcode' = <<1>>

\* what base.iterdir() raises on a directory that cannot be listed (lines 107, 138)
GpuDirError == "PermissionError: [Errno 13] Permission denied: '/proc/driver/nvidia/gpus'"

BlockDirError == "PermissionError: [Errno 13] Permission denied: '/sys/block'"

Go(next) ==
  /\ pc' = next
  /\ UNCHANGED <<stderr, exitcode>>

\* the tokens of the collectors (lines 177, 183-186, 206, 204)
BoardTokens(b) == <<"brd:" \o b>>

CpuTokens(c) ==
  <<"cpuv:" \o c.vendor, "cpus:" \o c.sig>> \o (IF c.isa # "" THEN <<"cpui:" \o c.isa>> ELSE <<>>)

GpuTokens(u) == <<"gpu:" \o Join(";", u)>>

CidTokens(cid) == <<"gpu:" \o cid>>

\* a digest of the tokens joined by commas instead of newlines
hwid_of_comma_joined(p) == sha256_hexdigest(Join(",", p))

\* a file name that would carry the whole digest
outname_whole_digest(h) == "license_request-" \o h \o ".json"

\* a feature list that would drop the duplicates
sorted_distinct(l) == SortedSet(Range(l))

\* hashlib.sha256("\n".join(parts).encode("utf-8")).hexdigest()
hwid_of(p) == sha256_hexdigest(Join("\n", p))

\* f"license_request-{hwid[:12]}.json"
default_outname(h) == "license_request-" \o SubSeq(h, 1, 12) \o ".json"

\* sorted(args.features)
sorted_features(l) == SortStrings(l)

\* main, lines 212-216: ap.parse_args()
ParseArgs ==
  /\ pc = "start"
  /\ args' = [out |-> argv.out,
              features |-> IF argv.features = <<>> THEN <<"AutoDrive">> ELSE argv.features[1],
              customer |-> argv.customer]
  /\ Go("board")
  /\ UNCHANGED <<env, argv, bn, ci, uuids, parts, hwid, outname, req, written, stdout,
                 smi_calls, prev, order>>

\* calc_components, lines 173-177
ReadBoardName ==
  /\ pc = "board"
  /\ bn' = read_board_name(env.board, env.wsl_env, env.osrelease)
  /\ IF bn' = ""
     THEN /\ Exit3("ERROR: missing DMI board_name (/sys/class/dmi/id/board_name)")
          /\ UNCHANGED parts
     ELSE /\ parts' = parts \o BoardTokens(bn')
          /\ Go("cpu")
  /\ UNCHANGED <<env, argv, args, ci, uuids, hwid, outname, req, written, stdout,
                 smi_calls, prev, order>>

\* calc_components, lines 179-186
ParseCpuinfo ==
  /\ pc = "cpu"
  /\ ci' = parse_cpuinfo(ProcCpuinfo(env.cpu))
  /\ IF ~ci'.ok
     THEN /\ Exit3("ERROR: missing or unparsable /proc/cpuinfo")
          /\ UNCHANGED parts
     ELSE /\ parts' = parts \o CpuTokens(ci')
          /\ Go("gpu")
  /\ UNCHANGED <<env, argv, args, bn, uuids, hwid, outname, req, written, stdout,
                 smi_calls, prev, order>>

\* calc_components, lines 188-189 and 205-206
CollectGpuUuids ==
  /\ pc = "gpu"
  /\ \E l \in Perms(env.gpu_dir.entries) :
       LET r == collect_gpu_uuids(env.gpu_dir, GpuListing(l), NvidiaSmiL(env.smi))
       IN  /\ smi_calls' = smi_calls + (IF r.smi_called THEN 1 ELSE 0)
           /\ IF r.raised
              THEN /\ \E tb \in GpuDirTraces(CalcFrame \o GpuCallFrame) : Raise(tb, GpuDirError)
                   /\ UNCHANGED <<uuids, parts>>
              ELSE /\ uuids' = r.uuids
                   /\ IF r.uuids # <<>>
                      THEN parts' = parts \o GpuTokens(r.uuids) /\ Go("sort")
                      ELSE UNCHANGED parts /\ Go("tegra")
  /\ UNCHANGED <<env, argv, args, bn, ci, hwid, outname, req, written, stdout, prev, order>>

\* calc_components, lines 190-196
CheckTegra ==
  /\ pc = "tegra"
  /\ IF is_tegra(env.compat)
     THEN Go("emmc")
     ELSE Exit3("ERROR: no NVIDIA GPU UUID found (need at least one GPU, and non-Tegra platforms must expose a UUID)")
  /\ UNCHANGED <<env, argv, args, bn, ci, uuids, parts, hwid, outname, req, written, stdout,
                 smi_calls, prev, order>>

\* calc_components, lines 197-204
ReadEmmcCid ==
  /\ pc = "emmc"
  /\ \E l \in Perms(env.block.entries) :
       LET r == read_emmc_cid(env.block, l)
       IN  IF r.raised
           THEN /\ \E tb \in BlockDirTraces : Raise(tb, BlockDirError)
                /\ UNCHANGED parts
           ELSE IF r.cid = ""
           THEN /\ Exit3("ERROR: Tegra platform detected but eMMC CID not readable")
                /\ UNCHANGED parts
           ELSE /\ parts' = parts \o CidTokens(r.cid)
                /\ Go("sort")
  /\ UNCHANGED <<env, argv, args, bn, ci, uuids, hwid, outname, req, written, stdout,
                 smi_calls, prev, order>>

\* calc_components, lines 208-209
SortParts ==
  /\ pc = "sort"
  /\ parts' = SortStrings(parts)
  /\ Go("hash")
  /\ UNCHANGED <<env, argv, args, bn, ci, uuids, hwid, outname, req, written, stdout,
                 smi_calls, prev, order>>

\* main, lines 219-221
ComputeHwid ==
  /\ pc = "hash"
  /\ hwid' = hwid_of(parts)
  /\ outname' = IF args.out # "" THEN args.out ELSE default_outname(hwid')
  /\ Go("build")
  /\ UNCHANGED <<env, argv, args, bn, ci, uuids, parts, req, written, stdout,
                 smi_calls, prev, order>>

\* what the driver directory and nvidia-smi may show when they are read again:
\* the same, or the driver unloaded, loaded, or its directory closed meanwhile
GpuSourcesLater ==
  {<<env.gpu_dir, env.smi>>, <<GpuDirMissing, SmiErr>>, <<GpuDirOf({Gpu0}), env.smi>>,
   <<GpuDirUnlistable, env.smi>>}

\* main, lines 223-235; the GPUs are collected again for gpu_count
BuildRequest ==
  /\ pc = "build"
  /\ \E t \in Clock, src \in GpuSourcesLater :
       \E l \in Perms(src[1].entries) :
         LET r == collect_gpu_uuids(src[1], GpuListing(l), NvidiaSmiL(src[2]))
         IN  /\ smi_calls' = smi_calls + (IF r.smi_called THEN 1 ELSE 0)
             /\ IF r.raised
                THEN /\ \E tb \in GpuDirTraces(GpuCountFrame) : Raise(tb, GpuDirError)
                     /\ UNCHANGED req
                ELSE /\ req' = <<[version |-> 1,
                                  timestamp |-> t,
                                  customer |-> args.customer,
                                  features |-> sorted_features(args.features),
                                  hwid_components |-> parts,
                                  hwid_sha256 |-> hwid,
                                  env |-> [uname |-> env.uname,
                                           in_docker_hint |-> env.dockerenv,
                                           gpu_count |-> Len(r.uuids)]]>>
                     /\ Go("emit")
  /\ UNCHANGED <<env, argv, args, bn, ci, uuids, parts, hwid, outname, written, stdout,
                 prev, order>>

\* main, lines 236-239, and the return to the interpreter
Emit ==
  /\ pc = "emit"
  /\ IF env.writable
     THEN /\ written' = Append(written, [name |-> outname, json |-> req[1]])
          /\ stdout' = stdout \o <<"wrote " \o outname, "HWID: " \o hwid>>
          /\ exitcode' = <<0>>
          /\ pc' = "done"
          /\ UNCHANGED stderr
     ELSE /\ Raise(ModuleFrame \o OpenFrame,
                   "PermissionError: [Errno 13] Permission denied: '" \o outname \o "'")
          /\ UNCHANGED <<written, stdout>>
  /\ UNCHANGED <<env, argv, args, bn, ci, uuids, parts, hwid, outname, req,
                 smi_calls, prev, order>>

Next ==
  \/ ParseArgs
  \/ ReadBoardName
  \/ ParseCpuinfo
  \/ CollectGpuUuids
  \/ CheckTegra
  \/ ReadEmmcCid
  \/ SortParts
  \/ ComputeHwid
  \/ BuildRequest
  \/ Emit

Spec == Init /\ [][Next]_vars

(***************************************************************************)
(* A second run on the same machine: the identity sources are the ones the  *)
(* first run read; the command line, the uname and the container hint       *)
(* change (the clock and the enumeration orders are chosen anew by the      *)
(* actions of the run).  prev keeps what the first run wrote.               *)
(***************************************************************************)
ArgvOther == [out |-> "again.json", features |-> <<<<"lidar">>>>, customer |-> "Other"]

OtherUname(u) == CHOOSE v \in Unames : v # u

\* a new process: the variables of main() as they are before it runs
Restart ==
  /\ args' = ArgvDefault
  /\ bn' = ""
  /\ ci' = NoCpu
  /\ uuids' = <<>>
  /\ parts' = <<>>
  /\ hwid' = ""
  /\ outname' = ""
  /\ req' = <<>>
  /\ written' = <<>>
  /\ stdout' = <<>>
  /\ stderr' = <<>>
  /\ exitcode' = <<>>
  /\ smi_calls' = 0

Rerun ==
  /\ pc = "done"
  /\ prev = <<>>
  /\ prev' = <<[hwid_components |-> written[1].json.hwid_components,
                hwid_sha256 |-> written[1].json.hwid_sha256]>>
  /\ argv' = IF argv = ArgvOther THEN ArgvDefault ELSE ArgvOther
  /\ env' = [env EXCEPT !.uname = OtherUname(@), !.dockerenv = ~@]
  /\ pc' = "start"
  /\ Restart
  /\ UNCHANGED order

NextRerun ==
  \/ Next
  \/ Rerun

SpecRerun == Init /\ [][NextRerun]_vars

(***************************************************************************)
(* calc_components with its three collectors contributing in any order:     *)
(* order is the collectors still to run.  After the list is sorted and      *)
(* hashed, the collection is done again in another order and compared with  *)
(* the first result, kept in prev.                                          *)
(***************************************************************************)
\* the tokens one collector appends, <<>> when it has none to give
Collect(m, c, lg, lb) ==
  LET b == read_board_name(m.board, m.wsl_env, m.osrelease)
      cpu == parse_cpuinfo(ProcCpuinfo(m.cpu))
      g == collect_gpu_uuids(m.gpu_dir, GpuListing(lg), NvidiaSmiL(m.smi))
      e == read_emmc_cid(m.block, lb)
  IN  CASE c = "board" -> IF b = "" THEN <<>> ELSE BoardTokens(b)
        [] c = "cpu" -> IF cpu.ok THEN CpuTokens(cpu) ELSE <<>>
        [] c = "gpu" -> IF g.raised THEN <<>>
                        ELSE IF g.uuids # <<>> THEN GpuTokens(g.uuids)
                        ELSE IF ~is_tegra(m.compat) \/ e.raised \/ e.cid = "" THEN <<>>
                        ELSE CidTokens(e.cid)

\* the machines on which calc_components returns
Complete(m) ==
  \A c \in Range(CodeOrder) :
    \E lg \in Perms(m.gpu_dir.entries), lb \in Perms(m.block.entries) :
      Collect(m, c, lg, lb) # <<>>

InitOrder ==
  /\ env \in {m \in Machines : Complete(m)}
  /\ argv = ArgvDefault
  /\ pc = "collect"
  /\ Fresh
  /\ prev = <<>>
  /\ order = CodeOrder

\* one collector of calc_components: its call, the locals it assigns and the
\* tokens it appends (lines 173-206)
Contribute ==
  /\ pc = "collect"
  /\ order # <<>>
  /\ \E lg \in Perms(env.gpu_dir.entries), lb \in Perms(env.block.entries) :
       LET c == Head(order)
           g == collect_gpu_uuids(env.gpu_dir, GpuListing(lg), NvidiaSmiL(env.smi))
       IN  /\ parts' = parts \o Collect(env, c, lg, lb)
           /\ bn' = IF c = "board" THEN read_board_name(env.board, env.wsl_env, env.osrelease)
                    ELSE bn
           /\ ci' = IF c = "cpu" THEN parse_cpuinfo(ProcCpuinfo(env.cpu)) ELSE ci
           /\ uuids' = IF c = "gpu" THEN g.uuids ELSE uuids
           /\ smi_calls' = smi_calls + (IF c = "gpu" /\ g.smi_called THEN 1 ELSE 0)
  /\ order' = Tail(order)
  /\ pc' = IF Tail(order) = <<>> THEN "sort" ELSE "collect"
  /\ UNCHANGED <<env, argv, args, hwid, outname, req, written, stdout, stderr, exitcode,
                 prev>>

\* calc_components called again: its locals are new, the collectors run in
\* another order
Permute ==
  /\ pc = "build"
  /\ prev = <<>>
  /\ prev' = <<[hwid_components |-> parts, hwid_sha256 |-> hwid]>>
  /\ order' \in Perms(Range(CodeOrder))
  /\ pc' = "collect"
  /\ parts' = <<>>
  /\ bn' = ""
  /\ ci' = NoCpu
  /\ uuids' = <<>>
  /\ hwid' = ""
  /\ outname' = ""
  /\ UNCHANGED <<env, argv, args, req, written, stdout, stderr, exitcode, smi_calls>>

NextOrder ==
  \/ Contribute
  \/ SortParts
  \/ ComputeHwid
  \/ Permute

SpecOrder == InitOrder /\ [][NextOrder]_vars

(***************************************************************************)
(* Properties.                                                              *)
(***************************************************************************)
\* the record of the file the run wrote
Record == written[1].json

\* how many times x occurs in the list l
Count(l, x) == Cardinality({i \in 1..Len(l) : l[i] = x})

\* the list is in ascending order (equal neighbours allowed)
IsAscending(l) == \A i \in 1..(Len(l) - 1) : ~StrLess(l[i + 1], l[i])

\* the label of a token: the text up to and including its first colon
LabelOf(t) == SubSeq(t, 1, Find(t, ":"))

\* the tokens of the list that carry one of the labels
TokensWith(l, labels) == {l[i] : i \in {j \in 1..Len(l) : LabelOf(l[j]) \in labels}}

CountLabel(l, label) == Cardinality({i \in 1..Len(l) : LabelOf(l[i]) = label})

\* C1: for a fixed multiset of tokens the sorted component list and the HWID
\* are the same whatever the order in which the board, CPU and accelerator
\* collectors contributed: a collection done again in any order ends with the
\* list and digest of the first collection.
C1_OrderInvariant ==
  /\ pc \in {"hash", "build"} /\ prev # <<>> => parts = prev[1].hwid_components
  /\ pc = "build" /\ prev # <<>> => hwid = prev[1].hwid_sha256

\* a second collection, in one of the six orders, sorted and hashed again
C1_Witness ==
  /\ pc = "build"
  /\ prev # <<>>
  /\ hwid = prev[1].hwid_sha256
  /\ Len(parts) = 5

\* C2: two successful runs that observe the same identity sources write the
\* same hwid_components and the same hwid_sha256, whatever the customer, the
\* features, the output path, the timestamp, the env values and the order in
\* which the directories are enumerated.
C2_RunsAgree ==
  pc = "done" /\ prev # <<>> =>
    /\ Record.hwid_components = prev[1].hwid_components
    /\ Record.hwid_sha256 = prev[1].hwid_sha256

\* a second successful run with another command line, on a Tegra machine
\* with two eligible eMMC devices
C2_Witness ==
  /\ pc = "done"
  /\ prev # <<>>
  /\ argv = ArgvOther
  /\ env.block = BlockOf({Emmc0, Emmc2})
  /\ Record.hwid_components = prev[1].hwid_components
  /\ TokensWith(parts, {"gpu:"}) = {"gpu:1501004d41473444"}

\* C3: a run that lacks a mandatory identity (board, CPU, accelerator or
\* storage) ends with exit code 3 after one message on standard error, with
\* no file written and nothing on standard output; a run that has all three
\* writes the file and ends with exit code 0.
C3_FatalOrWritten ==
  exitcode # <<>> =>
    IF TokensWith(parts, {"brd:"}) # {} /\ TokensWith(parts, {"cpuv:"}) # {}
       /\ TokensWith(parts, {"gpu:"}) # {}
    THEN exitcode = <<0>> /\ Len(written) = 1
    ELSE exitcode = <<3>> /\ Len(stderr) = 1 /\ written = <<>> /\ stdout = <<>>

\* C4: whatever read, directory or command fails, every collector returns a
\* value or absent: no exception leaves a collector, so no run ends with the
\* traceback of an exception raised in one.
C4_NoExceptionEscapes ==
  \A i \in 1..Len(stderr) : stderr[i] \notin {GpuDirError, BlockDirError}

\* the UUIDs the driver directory and nvidia-smi show, lower-cased
DirUuidSet ==
  IF env.gpu_dir.st = "ok"
  THEN {Lower(g.uuid) : g \in {h \in env.gpu_dir.entries : h.readable}}
  ELSE {}

SmiUuidSet == IF env.smi.st = "ok" THEN {Lower(u) : u \in Range(env.smi.gpus)} ELSE {}

FoundUuidSet == IF DirUuidSet # {} THEN DirUuidSet ELSE SmiUuidSet

\* the CIDs of the eligible eMMC devices
CidSet ==
  IF env.block.st = "ok"
  THEN {EmmcCid(e)[1] : e \in {d \in env.block.entries : EmmcCid(d) # <<>>}}
  ELSE {}

\* the accelerator step of calc_components is over, gpu_count not yet taken
AfterGpuStep == ci.ok /\ pc \in {"tegra", "emmc", "sort", "hash", "build", "exited"}

Fatal == pc = "exited" /\ exitcode = <<3>> /\ TokensWith(parts, {"gpu:"}) = {}

\* the fallback chain, for the runs the accelerator step does not crash
FallbackChain ==
  AfterGpuStep =>
    /\ smi_calls = (IF DirUuidSet = {} THEN 1 ELSE 0)
    /\ FoundUuidSet # {} =>
         /\ Range(uuids) = FoundUuidSet
         /\ \A i \in 1..(Len(uuids) - 1) : StrLess(uuids[i], uuids[i + 1])
         /\ pc # "tegra" /\ pc # "emmc" /\ pc # "exited"
         /\ TokensWith(parts, {"gpu:"}) = {"gpu:" \o Join(";", uuids)}
         /\ CountLabel(parts, "gpu:") = 1
    /\ FoundUuidSet = {} /\ ~is_tegra(env.compat) => pc = "tegra" \/ Fatal
    /\ FoundUuidSet = {} /\ is_tegra(env.compat) /\ CidSet # {} =>
         \/ pc \in {"tegra", "emmc"} /\ TokensWith(parts, {"gpu:"}) = {}
         \/ /\ pc \in {"sort", "hash", "build"}
            /\ CountLabel(parts, "gpu:") = 1
            /\ \E c \in CidSet : /\ TokensWith(parts, {"gpu:"}) = {"gpu:" \o c}
                                 /\ \A d \in CidSet : ~StrLess(d, c)
    /\ FoundUuidSet = {} /\ is_tegra(env.compat) /\ CidSet = {} =>
         \/ pc \in {"tegra", "emmc"} /\ TokensWith(parts, {"gpu:"}) = {}
         \/ Fatal

\* C5: nvidia-smi is consulted only when the driver directory yields no UUID;
\* when a source yields UUIDs the one gpu token is 'gpu:' and the distinct,
\* sorted, lower-cased UUIDs joined by ';'; when both yield none the run is
\* fatal unless the device is Tegra-class with a readable eMMC CID, and then
\* the token is 'gpu:<cid>'.  Every run that reaches the accelerator step
\* takes one of these outcomes.
C5_FallbackChain ==
  /\ FallbackChain
  /\ ci.ok /\ exitcode # <<>> /\ TokensWith(parts, {"gpu:"}) = {} => Fatal

\* the chain on the machines whose /proc/driver/nvidia/gpus and /sys/block
\* can be listed
FallbackChainIfListable ==
  env.gpu_dir.st # "unlistable" /\ env.block.st # "unlistable" =>
    /\ FallbackChain
    /\ ci.ok /\ exitcode # <<>> /\ TokensWith(parts, {"gpu:"}) = {} => Fatal

\* the first block of /proc/cpuinfo, as the kernel lists it
FirstBlock == IF env.cpu.readable /\ env.cpu.blocks # <<>> THEN env.cpu.blocks[1] ELSE <<>>

\* the value of the last line of the first block with one of the keys
FieldValue(keys) ==
  LET at == {i \in 1..Len(FirstBlock) : FirstBlock[i][1] \in keys}
  IN  IF at = {} THEN "" ELSE FirstBlock[Max(at)][2]

Normal(v) == Lower(RemoveSpace(v))

\* w stands in v as a word between white space
HasWord(v, w) ==
  \E i \in 1..(Len(v) - Len(w) + 1) :
    /\ SubSeq(v, i, i + Len(w) - 1) = w
    /\ i = 1 \/ IsSpace(Char(v, i - 1))
    /\ i + Len(w) - 1 = Len(v) \/ IsSpace(Char(v, i + Len(w)))

KeptFlags(keep) == {k \in keep : HasWord(Lower(FieldValue({"flags", "Features"})), k)}

IsaToken(keep) ==
  IF KeptFlags(keep) = {} THEN {} ELSE {"cpui:" \o Join(",", SortedSet(KeptFlags(keep)))}

X86Fields == <<"vendor_id", "cpu family", "model", "stepping">>

ArmFields ==
  <<"CPU implementer", "CPU architecture", "CPU variant", "CPU part", "CPU revision">>

AllGiven(fields) == \A i \in 1..Len(fields) : Normal(FieldValue({fields[i]})) # ""

X86Tokens ==
  {"cpuv:" \o Normal(FieldValue({"vendor_id"})),
   "cpus:" \o Normal(FieldValue({"cpu family"})) \o "-" \o Normal(FieldValue({"model"}))
           \o "-" \o Normal(FieldValue({"stepping"}))}
  \cup IsaToken(KEEP_FLAGS_X86)

ArmTokens ==
  {"cpuv:" \o Normal(FieldValue({"CPU implementer"})),
   "cpus:" \o Normal(FieldValue({"CPU architecture"})) \o "-"
           \o Normal(FieldValue({"CPU variant"})) \o "-" \o Normal(FieldValue({"CPU part"}))
           \o "-" \o Normal(FieldValue({"CPU revision"}))}
  \cup IsaToken(KEEP_FLAGS_ARM)

CpuLabels == {"cpuv:", "cpus:", "cpui:"}

\* C6: only the lines before the first blank line of /proc/cpuinfo count; the
\* x86 profile is taken when vendor, family, model and stepping are all given,
\* even if the ARM fields are complete too; else the ARM profile when its five
\* fields are given; else the CPU identity is absent.  The CPU tokens are
\* exactly cpuv and cpus, and cpui only when a kept flag is present.
C6_CpuProfile ==
  bn # "" /\ pc \notin {"start", "board", "cpu"} =>
    IF AllGiven(X86Fields)
    THEN /\ ci.ok
         /\ TokensWith(parts, CpuLabels) = X86Tokens
         /\ \A l \in CpuLabels : CountLabel(parts, l) <= 1
    ELSE IF AllGiven(ArmFields)
    THEN /\ ci.ok
         /\ TokensWith(parts, CpuLabels) = ArmTokens
         /\ \A l \in CpuLabels : CountLabel(parts, l) <= 1
    ELSE /\ ~ci.ok
         /\ pc = "exited"
         /\ exitcode = <<3>>
         /\ TokensWith(parts, CpuLabels) = {}

\* both profiles complete in the first block: the x86 one was taken
C6_Witness ==
  /\ pc = "gpu"
  /\ env.cpu = Cpu(<<BothLines>>)
  /\ AllGiven(X86Fields) /\ AllGiven(ArmFields)
  /\ TokensWith(parts, CpuLabels) = {"cpuv:authenticamd", "cpus:25-33-2", "cpui:avx,sse2"}

HexDigits == {"0", "1", "2", "3", "4", "5", "6", "7", "8", "9", "a", "b", "c", "d", "e", "f"}

\* C7: without an explicit output path the file written is named
\* 'license_request-', the first 12 hex characters of the hwid_sha256 stored
\* in it, '.json'; with an explicit path that path is written; the first line
\* of standard output names the file written and the second carries the HWID.
C7_OutputNaming ==
  pc = "done" =>
    /\ Len(written) = 1
    /\ argv.out = "" =>
         /\ Len(Record.hwid_sha256) = 64
         /\ \A i \in 1..12 : Char(Record.hwid_sha256, i) \in HexDigits
         /\ written[1].name = "license_request-" \o SubSeq(Record.hwid_sha256, 1, 12) \o ".json"
    /\ argv.out # "" => written[1].name = argv.out
    /\ stdout = <<"wrote " \o written[1].name, "HWID: " \o Record.hwid_sha256>>

\* a run without --out on the desktop: its file is named after its digest
C7_Witness ==
  /\ pc = "done"
  /\ argv.out = ""
  /\ env = Desktop
  /\ Len(written[1].name) = 33
  /\ stdout[1] = "wrote " \o written[1].name

ComponentLabels == {"brd:", "cpuv:", "cpus:", "cpui:", "gpu:"}

\* C8: in every record written, hwid_components is sorted and holds exactly
\* one brd, one cpuv, one cpus and one gpu token, at most one cpui token and
\* no other label, and hwid_sha256 is the SHA-256 digest of that list joined
\* by newlines.
C8_RecordShape ==
  written # <<>> =>
    /\ IsAscending(Record.hwid_components)
    /\ \A i \in 1..Len(Record.hwid_components) :
         LabelOf(Record.hwid_components[i]) \in ComponentLabels
    /\ \A l \in {"brd:", "cpuv:", "cpus:", "gpu:"} : CountLabel(Record.hwid_components, l) = 1
    /\ CountLabel(Record.hwid_components, "cpui:") <= 1
    /\ Record.hwid_sha256 = sha256_hexdigest(Join("\n", Record.hwid_components))

\* a record with all five tokens, the gpu token carrying two UUIDs
C8_Witness ==
  /\ written # <<>>
  /\ Len(Record.hwid_components) = 5
  /\ Record.hwid_components[5] = "gpu:gpu-b2f1d7a4;gpu-d30c55aa"
  /\ Record.hwid_components[1] = "brd:x570aoruspro"

\* the names asked for: those after --features, the built-in one without it
Requested == IF argv.features = <<>> THEN <<"AutoDrive">> ELSE argv.features[1]

\* the names given on the command line: none when --features is absent and
\* none when it is given without a name
Named == IF argv.features = <<>> THEN <<>> ELSE argv.features[1]

\* C9, as stated: the features of the record are the requested names in
\* ascending order with every duplicate kept (same multiset, same length), and
\* when no features are requested on the command line the list is the single
\* built-in name.
C9_BuiltInWhenNoneRequested ==
  written # <<>> =>
    /\ Named # <<>> =>
         /\ IsAscending(Record.features)
         /\ Len(Record.features) = Len(Named)
         /\ \A x \in Range(Named) \cup Range(Record.features) :
              Count(Record.features, x) = Count(Named, x)
    /\ Named = <<>> => Record.features = <<"AutoDrive">>

\* C9, amended: the features of the record are the names given after
\* --features in ascending order with every duplicate kept (same multiset,
\* same length); the list is the single built-in name only when the option
\* --features is absent, and it is empty when the option is given without a
\* name.
C9_Features ==
  written # <<>> =>
    /\ IsAscending(Record.features)
    /\ Len(Record.features) = Len(Requested)
    /\ \A x \in Range(Requested) \cup Range(Record.features) :
         Count(Record.features, x) = Count(Requested, x)
    /\ argv.features = <<>> => Record.features = <<"AutoDrive">>
    /\ argv.features = <<<<>>>> => Record.features = <<>>

\* b, a, a was asked for and a, a, b was written
C9_Witness ==
  /\ written # <<>>
  /\ argv.features = <<<<"b", "a", "a">>>>
  /\ Record.features = <<"a", "a", "b">>

\* C10: the gpu_count of the record is the number of UUIDs in the gpu token
\* of the same record, and 0 when the token carries the eMMC CID, also when a
\* driver read or nvidia-smi succeeds in one of the two collections and fails
\* in the other.
C10_GpuCount ==
  written # <<>> =>
    /\ uuids # <<>> => TokensWith(Record.hwid_components, {"gpu:"}) = {"gpu:" \o Join(";", uuids)}
    /\ Record.env.gpu_count = Len(uuids)

\* a record whose gpu token lists two UUIDs and whose gpu_count is 0: the
\* driver directory was gone and nvidia-smi failed at the second collection
C10_Witness ==
  /\ written # <<>>
  /\ Len(uuids) = 2
  /\ TokensWith(Record.hwid_components, {"gpu:"}) = {"gpu:gpu-b2f1d7a4;gpu-d30c55aa"}
  /\ Record.env.gpu_count = 0

\* board and CPU identities read, /proc/driver/nvidia/gpus not listable: the
\* run ends with status 1 and a traceback instead of status 3 and one message
C3_Witness ==
  /\ exitcode = <<1>>
  /\ env.gpu_dir.st = "unlistable"
  /\ bn # "" /\ ci.ok
  /\ TokensWith(parts, {"gpu:"}) = {}
  /\ Len(stderr) > 1
  /\ stderr[1] = TracebackHeader
  /\ stderr[Len(stderr)] = GpuDirError
  /\ written = <<>>

\* the exception of the second collection, after every identity was read
C4_Witness ==
  /\ pc = "crashed"
  /\ env.gpu_dir.st = "ok"
  /\ TokensWith(parts, {"gpu:"}) # {}
  /\ stderr[Len(stderr)] = GpuDirError

\* a Tegra machine without GPU UUIDs whose /sys/block cannot be listed: the
\* run ends with the traceback of read_emmc_cid, not with the fatal message
C5_Witness ==
  /\ pc = "crashed"
  /\ FoundUuidSet = {}
  /\ is_tegra(env.compat)
  /\ env.block.st = "unlistable"
  /\ stderr[Len(stderr)] = BlockDirError
  /\ exitcode = <<1>>
====
